---------------------------- MODULE Spec2Model ----------------------------
(***************************************************************************)
(* A model of the yts-movies client library: the filter builder, the URL   *)
(* builder, the two transport clients and the two HTML extractors.         *)
(*                                                                         *)
(* A Rust string is a sequence of one-character strings, so that slicing,  *)
(* trimming, substring search, number parsing and query encoding are       *)
(* computed the way the code computes them.  Option<T> is a sequence of    *)
(* length 0 (None) or 1 (Some).  An f32 rating is kept in tenths.          *)
(***************************************************************************)
EXTENDS Integers, Sequences, FiniteSets, TLC

(***************************************************************************)
(* Bounds of the model.                                                    *)
(***************************************************************************)
\* genre tokens in one generated result row
MaxGenres == 2
\* result rows in one generated results page
MaxRows == 2
\* quality labels, info blocks and download anchors on one detail page
MaxTorrents == 2
\* setter calls on one Filters builder
MaxSetters == 1
\* largest page number a caller asks for
MaxPage == 2
\* largest total result count the site renders
MaxTotal == 45

(***************************************************************************)
(* Strings.                                                                *)
(***************************************************************************)
Some(x) == <<x>>

IsSome(o) == Len(o) = 1

\* A character that takes two bytes in UTF-8 (e with acute accent).
EAcute == "U+00E9"

\* char::len_utf8
Bytes(c) == IF c = EAcute THEN 2 ELSE 1

RECURSIVE ByteLen(_)
\* str::len
ByteLen(s) == IF s = <<>> THEN 0 ELSE Bytes(Head(s)) + ByteLen(Tail(s))

\* str::is_char_boundary
IsCharBoundary(s, n) == \E k \in 0..Len(s) : ByteLen(SubSeq(s, 1, k)) = n

\* &s[..n], where n is a char boundary of s
SliceTo(s, n) == SubSeq(s, 1, CHOOSE k \in 0..Len(s) : ByteLen(SubSeq(s, 1, k)) = n)

\* str::contains
Contains(s, sub) ==
    \E i \in 1..(Len(s) - Len(sub) + 1) : SubSeq(s, i, i + Len(sub) - 1) = sub

\* char::is_whitespace
IsWhitespace(c) == c \in {" ", "\t", "\n"}

\* str::trim
Trim(s) ==
    LET keep == {i \in 1..Len(s) : ~IsWhitespace(s[i])}
    IN  IF keep = {} THEN <<>>
        ELSE SubSeq(s, CHOOSE i \in keep : \A j \in keep : i <= j,
                       CHOOSE i \in keep : \A j \in keep : j <= i)

DigitChars == <<"0", "1", "2", "3", "4", "5", "6", "7", "8", "9">>

IsDigit(c) == \E d \in 1..10 : DigitChars[d] = c

DigitVal(c) == (CHOOSE d \in 1..10 : DigitChars[d] = c) - 1

AllDigits(s) == \A i \in 1..Len(s) : IsDigit(s[i])

RECURSIVE DecimalValue(_)
DecimalValue(s) ==
    IF s = <<>> THEN 0
    ELSE 10 * DecimalValue(SubSeq(s, 1, Len(s) - 1)) + DigitVal(s[Len(s)])

\* u32::MAX, in decimal
U32MaxDigits == <<"4","2","9","4","9","6","7","2","9","5">>

\* the digits of s after its leading zeros
Significant(s) ==
    LET keep == {i \in 1..Len(s) : s[i] # "0"}
    IN  IF keep = {} THEN <<>>
        ELSE SubSeq(s, CHOOSE i \in keep : \A j \in keep : i <= j, Len(s))

\* whether the decimal number s is above u32::MAX
OverflowsU32(s) ==
    LET d == Significant(s)
    IN  \/ Len(d) > Len(U32MaxDigits)
        \/ /\ Len(d) = Len(U32MaxDigits)
           /\ \E i \in 1..Len(d) :
                /\ SubSeq(d, 1, i - 1) = SubSeq(U32MaxDigits, 1, i - 1)
                /\ DigitVal(d[i]) > DigitVal(U32MaxDigits[i])

\* <u32 as FromStr>::from_str: an optional '+', then one or more digits, no overflow
ParseU32(s) ==
    LET digits == IF s # <<>> /\ Head(s) = "+" THEN Tail(s) ELSE s
    IN  IF digits # <<>> /\ AllDigits(digits) /\ ~OverflowsU32(digits)
        THEN Some(DecimalValue(digits))
        ELSE <<>>

RECURSIVE U32ToString(_)
\* <u32 as Display>::fmt
U32ToString(n) ==
    IF n < 10 THEN <<DigitChars[n + 1]>>
    ELSE U32ToString(n \div 10) \o <<DigitChars[(n % 10) + 1]>>

\* <f32 as FromStr>::from_str on a slice of at most two bytes, in tenths:
\* Sign? (Digit+ | Digit+ '.' Digit* | Digit* '.' Digit+).  The exponent,
\* "inf" and "nan" forms need three bytes or more with a digit or a letter.
ParseF32(s) ==
    LET signed == s # <<>> /\ Head(s) \in {"+", "-"}
        body   == IF signed THEN Tail(s) ELSE s
        dots   == {i \in 1..Len(body) : body[i] = "."}
        int    == IF dots = {} THEN body
                  ELSE SubSeq(body, 1, (CHOOSE i \in dots : TRUE) - 1)
        frac   == IF dots = {} THEN <<>>
                  ELSE SubSeq(body, (CHOOSE i \in dots : TRUE) + 1, Len(body))
        tenths == 10 * DecimalValue(int) + (IF frac = <<>> THEN 0 ELSE DigitVal(frac[1]))
    IN  IF /\ Len(s) <= 2
           /\ Cardinality(dots) <= 1
           /\ AllDigits(int) /\ AllDigits(frac)
           /\ Len(int) + Len(frac) >= 1
        THEN Some(IF signed /\ Head(s) = "-" THEN 0 - tenths ELSE tenths)
        ELSE <<>>

(***************************************************************************)
(* Results.                                                                *)
(***************************************************************************)
Ok(v) == [kind |-> "Ok", value |-> v]

Err(e) == [kind |-> "Err", error |-> e]

\* The thread unwinds: the caller gets no value at all.
Panic(msg) == [kind |-> "Panic", message |-> msg]

(***************************************************************************)
(* The filter enumerations and their string forms.                         *)
(***************************************************************************)
Qualities == {"All", "P720", "P1080", "P2160", "ThreeD"}

\* impl From<&Quality> for &str
QualityToStr(q) ==
    CASE q = "All"    -> <<"a","l","l">>
      [] q = "P720"   -> <<"7","2","0","p">>
      [] q = "P1080"  -> <<"1","0","8","0","p">>
      [] q = "P2160"  -> <<"2","1","6","0","p">>
      [] q = "ThreeD" -> <<"3","D">>

\* From<&str> for Quality matching the whole label instead of a substring
QualityFromStrExact(value) ==
    IF value = <<"7","2","0">> THEN "P720"
    ELSE IF value = <<"1","0","8","0">> THEN "P1080"
    ELSE IF value = <<"2","1","6","0">> THEN "P2160"
    ELSE "ThreeD"

\* impl From<&str> for Quality
QualityFromStr(value) ==
    IF Contains(value, <<"7","2","0">>) THEN "P720"
    ELSE IF Contains(value, <<"1","0","8","0">>) THEN "P1080"
    ELSE IF Contains(value, <<"2","1","6","0">>) THEN "P2160"
    ELSE "ThreeD"

\* enum Genre: variant, query-string form (From<&Genre> for &str), page label
\* (From<&str> for Genre; All has none)
GenreTable ==
    { <<"All",         <<"a","l","l">>,         <<>> >>,
      <<"Action",      <<"a","c","t","i","o","n">>,      Some(<<"A","c","t","i","o","n">>)>>,
      <<"Adventure",   <<"a","d","v","e","n","t","u","r","e">>,   Some(<<"A","d","v","e","n","t","u","r","e">>)>>,
      <<"Animation",   <<"a","n","i","m","a","t","i","o","n">>,   Some(<<"A","n","i","m","a","t","i","o","n">>)>>,
      <<"Biography",   <<"b","i","o","g","r","a","p","h","y">>,   Some(<<"B","i","o","g","r","a","p","h","y">>)>>,
      <<"Comedy",      <<"c","o","m","e","d","y">>,      Some(<<"C","o","m","e","d","y">>)>>,
      <<"Crime",       <<"c","r","i","m","e">>,       Some(<<"C","r","i","m","e">>)>>,
      <<"Documentary", <<"d","o","c","u","m","e","n","t","a","r","y">>, Some(<<"D","o","c","u","m","e","n","t","a","r","y">>)>>,
      <<"Drama",       <<"d","r","a","m","a">>,       Some(<<"D","r","a","m","a">>)>>,
      <<"Family",      <<"f","a","m","i","l","y">>,      Some(<<"F","a","m","i","l","y">>)>>,
      <<"Fantasy",     <<"f","a","n","t","a","s","y">>,     Some(<<"F","a","n","t","a","s","y">>)>>,
      <<"FilmNoir",    <<"f","i","l","m","-","n","o","i","r">>,   Some(<<"F","i","l","m","-","N","o","i","r">>)>>,
      <<"GameShow",    <<"g","a","m","e","-","s","h","o","w">>,   Some(<<"G","a","m","e","-","S","h","o","w">>)>>,
      <<"History",     <<"h","i","s","t","o","r","y">>,     Some(<<"H","i","s","t","o","r","y">>)>>,
      <<"Horror",      <<"h","o","r","r","o","r">>,      Some(<<"H","o","r","r","o","r">>)>>,
      <<"Music",       <<"m","u","s","i","c">>,       Some(<<"M","u","s","i","c">>)>>,
      <<"Musical",     <<"m","u","s","i","c","a","l">>,     Some(<<"M","u","s","i","c","a","l">>)>>,
      <<"Mystery",     <<"m","y","s","t","e","r","y">>,     Some(<<"M","y","s","t","e","r","y">>)>>,
      <<"News",        <<"n","e","w","s">>,        Some(<<"N","e","w","s">>)>>,
      <<"RealityTV",   <<"r","e","a","l","i","t","y","-","t","v">>,  Some(<<"R","e","a","l","i","t","y","-","T","V">>)>>,
      <<"Romance",     <<"r","o","m","a","n","c","e">>,     Some(<<"R","o","m","a","n","c","e">>)>>,
      <<"SciFi",       <<"s","c","i","-","f","i">>,      Some(<<"S","c","i","-","F","i">>)>>,
      <<"Sport",       <<"s","p","o","r","t">>,       Some(<<"S","p","o","r","t">>)>>,
      <<"TalkShow",    <<"t","a","l","k","-","s","h","o","w">>,   Some(<<"T","a","l","k","-","S","h","o","w">>)>>,
      <<"Thriller",    <<"t","h","r","i","l","l","e","r">>,    Some(<<"T","h","r","i","l","l","e","r">>)>>,
      <<"War",         <<"w","a","r">>,         Some(<<"W","a","r">>)>>,
      <<"Western",     <<"w","e","s","t","e","r","n">>,     Some(<<"W","e","s","t","e","r","n">>)>> }

Genres == {e[1] : e \in GenreTable}

\* impl From<&Genre> for &str
GenreToStr(g) == (CHOOSE e \in GenreTable : e[1] = g)[2]

\* impl From<&str> for Genre: Some(variant), or None where the code panics
GenreFromStr(value) ==
    LET hits == {e \in GenreTable : e[3] = Some(value)}
    IN  IF hits = {} THEN <<>> ELSE Some((CHOOSE e \in hits : TRUE)[1])

Ratings == {"All", "One", "Two", "Three", "Four", "Five", "Six", "Seven", "Eight", "Nine"}

\* impl From<&Rating> for &str
RatingToStr(r) ==
    CASE r = "All"   -> <<"0">>
      [] r = "One"   -> <<"1">>
      [] r = "Two"   -> <<"2">>
      [] r = "Three" -> <<"3">>
      [] r = "Four"  -> <<"4">>
      [] r = "Five"  -> <<"5">>
      [] r = "Six"   -> <<"6">>
      [] r = "Seven" -> <<"7">>
      [] r = "Eight" -> <<"8">>
      [] r = "Nine"  -> <<"9">>

\* enum Year; Equal(y) is <<"Equal", y>>
YearRanges == {"Range2000to2009", "Range1990to1999", "Range1980to1989",
               "Range1970to1979", "Range1950to1969", "Range1900to1949"}

\* the exact years a caller asks for
EqualYears == {1974, 0}

Years == {<<"All">>} \cup {<<r>> : r \in YearRanges} \cup {<<"Equal", y>> : y \in EqualYears}

\* impl From<&Year> for String
YearToStr(y) ==
    CASE y[1] = "All"             -> <<"0">>
      [] y[1] = "Equal"           -> U32ToString(y[2])
      [] y[1] = "Range2000to2009" -> <<"2","0","0","0","-","2","0","0","9">>
      [] y[1] = "Range1990to1999" -> <<"1","9","9","0","-","1","9","9","9">>
      [] y[1] = "Range1980to1989" -> <<"1","9","8","0","-","1","9","8","9">>
      [] y[1] = "Range1970to1979" -> <<"1","9","7","0","-","1","9","7","9">>
      [] y[1] = "Range1950to1969" -> <<"1","9","5","0","-","1","9","6","9">>
      [] y[1] = "Range1900to1949" -> <<"1","9","0","0","-","1","9","4","9">>

OrderBys == {"Latest", "Oldest", "Featured", "Year", "Rating", "Likes", "Alphabetical"}

\* impl From<&OrderBy> for &str
OrderByToStr(o) ==
    CASE o = "Latest"       -> <<"l","a","t","e","s","t">>
      [] o = "Oldest"       -> <<"o","l","d","e","s","t">>
      [] o = "Featured"     -> <<"f","e","a","t","u","r","e","d">>
      [] o = "Year"         -> <<"y","e","a","r">>
      [] o = "Rating"       -> <<"r","a","t","i","n","g">>
      [] o = "Likes"        -> <<"l","i","k","e","s">>
      [] o = "Alphabetical" -> <<"a","l","p","h","a","b","e","t","i","c","a","l">>

\* a default builder that starts at page 0
FiltersDefaultPageZero ==
    [quality |-> "All", genre |-> "All", rating |-> "All", year |-> <<"All">>,
     order_by |-> "Latest", page |-> 0]

\* impl Default for Filters
FiltersDefault ==
    [quality |-> "All", genre |-> "All", rating |-> "All", year |-> <<"All">>,
     order_by |-> "Latest", page |-> 1]

(***************************************************************************)
(* The URL builder (Yts::create_url) and the url crate's parser and        *)
(* serializer it calls.                                                    *)
(***************************************************************************)
AsciiAlnum ==
    {"a","b","c","d","e","f","g","h","i","j","k","l","m","n","o","p","q","r","s","t",
     "u","v","w","x","y","z","A","B","C","D","E","F","G","H","I","J","K","L","M","N",
     "O","P","Q","R","S","T","U","V","W","X","Y","Z","0","1","2","3","4","5","6","7",
     "8","9"}

\* form_urlencoded::byte_serialize, one character: '*', '-', '.', '_' and the
\* alphanumerics as they are, a space as '+', any other byte as %XX
ByteSerializeChar(c) ==
    CASE c \in AsciiAlnum \cup {"*", "-", ".", "_"} -> <<c>>
      [] c = " "    -> <<"+">>
      [] c = "\t"   -> <<"%","0","9">>
      [] c = "#"    -> <<"%","2","3">>
      [] c = "%"    -> <<"%","2","5">>
      [] c = "&"    -> <<"%","2","6">>
      [] c = "+"    -> <<"%","2","B">>
      [] c = "/"    -> <<"%","2","F">>
      [] c = "="    -> <<"%","3","D">>
      [] c = "?"    -> <<"%","3","F">>
      [] c = EAcute -> <<"%","C","3","%","A","9">>

RECURSIVE ByteSerialize(_)
\* form_urlencoded::byte_serialize
ByteSerialize(s) ==
    IF s = <<>> THEN <<>> ELSE ByteSerializeChar(Head(s)) \o ByteSerialize(Tail(s))

\* the first index of character c in s, or Len(s) + 1
IndexOf(s, c) ==
    LET hits == {i \in 1..Len(s) : s[i] = c}
    IN  IF hits = {} THEN Len(s) + 1 ELSE CHOOSE i \in hits : \A j \in hits : i <= j

\* Url::parse for an https URL: the fragment starts at the first '#', the query
\* at the first '?' before it, the authority ends at the first '/', and an
\* empty path is "/".  None stands for the parse error (no scheme: a relative
\* URL without a base; an empty or malformed host).
UrlParse(s) ==
    LET hash      == IndexOf(s, "#")
        noFrag    == SubSeq(s, 1, hash - 1)
        mark      == IndexOf(noFrag, "?")
        noQuery   == SubSeq(noFrag, 1, mark - 1)
        scheme    == <<"h","t","t","p","s",":","/","/">>
        after     == SubSeq(noQuery, Len(scheme) + 1, Len(noQuery))
        slash     == IndexOf(after, "/")
        authority == SubSeq(after, 1, slash - 1)
    IN  IF /\ Len(noQuery) >= Len(scheme)
           /\ SubSeq(noQuery, 1, Len(scheme)) = scheme
           /\ authority # <<>>
           /\ \A i \in 1..Len(authority) : authority[i] \in AsciiAlnum \cup {".", "-"}
        THEN Some([origin   |-> scheme \o authority,
                   path     |-> IF slash > Len(after) THEN <<"/">>
                                ELSE SubSeq(after, slash, Len(after)),
                   query    |-> IF mark > Len(noFrag) THEN <<>>
                                ELSE Some(SubSeq(noFrag, mark + 1, Len(noFrag))),
                   fragment |-> IF hash > Len(s) THEN <<>>
                                ELSE Some(SubSeq(s, hash + 1, Len(s)))])
        ELSE <<>>

\* Url::as_str
UrlAsStr(u) ==
    u.origin \o u.path
        \o (IF IsSome(u.query) THEN <<"?">> \o u.query[1] ELSE <<>>)
        \o (IF IsSome(u.fragment) THEN <<"#">> \o u.fragment[1] ELSE <<>>)

RECURSIVE SpacesToPlus(_)
\* the keyword with its spaces replaced by '+' and nothing else encoded
SpacesToPlus(s) ==
    IF s = <<>> THEN <<>>
    ELSE <<IF Head(s) = " " THEN "+" ELSE Head(s)>> \o SpacesToPlus(Tail(s))

\* The encoder create_url applies to the keyword.
EncodeKeyword(s) == ByteSerialize(s)

\* Url::query_pairs_mut().append_pair(name, value): the pair goes to the end of
\* the query, after a '&' when the query is not empty; the fragment stays last
AppendPair(u, name, value) ==
    LET old == IF IsSome(u.query) THEN u.query[1] ELSE <<>>
    IN  [u EXCEPT !.query =
            Some((IF old = <<>> THEN <<>> ELSE old \o <<"&">>)
                 \o ByteSerialize(name) \o <<"=">> \o EncodeKeyword(value))]

\* Yts::create_url
CreateUrl(h, movie_name, filter) ==
    LET url == UrlParse(h \o <<"/","b","r","o","w","s","e","-","m","o","v","i","e","s">>)
    IN  IF url = <<>> THEN Err(<<"ParseError", h>>)
        ELSE Ok(UrlAsStr(AppendPair(url[1], <<"k","e","y","w","o","r","d">>, Trim(movie_name)))
                \o <<"&","q","u","a","l","i","t","y","=">>  \o QualityToStr(filter.quality)
                \o <<"&","g","e","n","r","e","=">>    \o GenreToStr(filter.genre)
                \o <<"&","r","a","t","i","n","g","=">>   \o RatingToStr(filter.rating)
                \o <<"&","y","e","a","r","=">>     \o YearToStr(filter.year)
                \o <<"&","o","r","d","e","r","_","b","y","=">> \o OrderByToStr(filter.order_by)
                \o <<"&","p","a","g","e","=">>     \o U32ToString(filter.page))

(***************************************************************************)
(* The search-results extractor.  A results page is what the selectors see *)
(* of it: count is the first text of the first "div.container h2 b", rows  *)
(* the "div.browse-movie-wrap" elements of the first "section div.row";    *)
(* a row is the href of its first "a.browse-movie-link", the src of its    *)
(* first "img" and its text nodes.                                         *)
(***************************************************************************)
\* Page::create with the remainder forgotten: a page is added for every total
PageCreateRoundsUp(current, total) ==
    [current |-> current,
     of      |-> IF total > 20 THEN (total \div 20) + 1 ELSE 1,
     total   |-> total]

\* Page::create
PageCreate(current, total) ==
    [current |-> current,
     of      |-> IF total > 20
                 THEN (total \div 20) + (IF total % 20 > 0 THEN 1 ELSE 0)
                 ELSE 1,
     total   |-> total]

ViewDetails == <<"V","i","e","w"," ","D","e","t","a","i","l","s">>

\* the token sequence of a row
RowInfo(line) ==
    SelectSeq(line.texts, LAMBDA t : Trim(t) # <<>> /\ t # ViewDetails)

\* s, or "" for None
UnwrapOrDefault(o) == IF IsSome(o) THEN o[1] ELSE <<>>

\* the detail link of a row
RowLink(h, line) == h \o UnwrapOrDefault(line.href)

\* the poster image of a row
RowImage(h, line) == h \o UnwrapOrDefault(line.src)

\* the genre list of a row, from its genre tokens
RowGenres(labels) ==
    IF \E i \in 1..Len(labels) : GenreFromStr(labels[i]) = <<>>
    THEN Panic("Invalid genre")
    ELSE Ok([i \in 1..Len(labels) |-> GenreFromStr(labels[i])[1]])

\* the rating of a row, from its first token
RowRating(token) ==
    IF ByteLen(token) < 2 \/ ~IsCharBoundary(token, 2)
    THEN Panic("byte index 2 is out of bounds or not a char boundary")
    ELSE IF ParseF32(SliceTo(token, 2)) = <<>> THEN Err("ParseFloatError")
    ELSE Ok(ParseF32(SliceTo(token, 2))[1])

\* The body of the row loop of Response::create.  overflow_checks is the build
\* profile: usize subtraction panics on underflow with it and wraps without.
MovieCreate(h, line, overflow_checks) ==
    LET link   == RowLink(h, line)
        image  == RowImage(h, line)
        info   == RowInfo(line)
        n      == Len(info)
        rating == RowRating(info[1])
        year   == ParseU32(info[n])
        genres == RowGenres(SubSeq(info, 2, n - 2))
    IN  IF n = 0 THEN Err("MovieRatingError")
        ELSE IF rating.kind # "Ok" THEN rating
        ELSE IF year = <<>> THEN Err("ParseIntError")
        ELSE IF n < 2
             THEN IF overflow_checks THEN Panic("attempt to subtract with overflow")
                  ELSE Err("MovieNameError")
        ELSE IF n - 2 < 1 THEN Panic("slice index starts at 1 but ends at 0")
        ELSE IF genres.kind # "Ok" THEN genres
        ELSE Ok([name  |-> info[n - 1], year |-> year[1], rating |-> rating.value,
                 genre |-> genres.value, image |-> image, link |-> link])

RECURSIVE MoviesCreateSkipsFailed(_, _, _)
\* The row loop of Response::create leaving out the rows that fail
MoviesCreateSkipsFailed(h, lines, overflow_checks) ==
    IF lines = <<>> THEN Ok(<<>>)
    ELSE LET movie == MovieCreate(h, Head(lines), overflow_checks)
             rest  == MoviesCreateSkipsFailed(h, Tail(lines), overflow_checks)
         IN  IF movie.kind # "Ok" THEN rest
             ELSE Ok(<<movie.value>> \o rest.value)

RECURSIVE MoviesCreate(_, _, _)
\* The row loop of Response::create: the first row that fails ends it.
MoviesCreate(h, lines, overflow_checks) ==
    IF lines = <<>> THEN Ok(<<>>)
    ELSE LET movie == MovieCreate(h, Head(lines), overflow_checks)
             rest  == MoviesCreate(h, Tail(lines), overflow_checks)
         IN  IF movie.kind # "Ok" THEN movie
             ELSE IF rest.kind # "Ok" THEN rest
             ELSE Ok(<<movie.value>> \o rest.value)

\* the total result count of a results page, taking the digits a count text
\* starts with for the count
ParseTotalLeadingDigits(html) ==
    LET text  == UnwrapOrDefault(html.count)
        stops == {i \in 1..Len(text) : ~IsDigit(text[i])} \cup {Len(text) + 1}
        lead  == SubSeq(text, 1, (CHOOSE i \in stops : \A j \in stops : i <= j) - 1)
    IN  IF OverflowsU32(lead) THEN 0 ELSE DecimalValue(lead)

\* the total result count of a results page
ParseTotal(html) ==
    IF IsSome(html.count) /\ IsSome(ParseU32(html.count[1]))
    THEN ParseU32(html.count[1])[1]
    ELSE 0

\* Response::create
ResponseCreate(h, html, page, overflow_checks) ==
    LET movies == MoviesCreate(h, UnwrapOrDefault(html.rows), overflow_checks)
    IN  IF movies.kind # "Ok" THEN movies
        ELSE Ok([page |-> PageCreate(page, ParseTotal(html)), movies |-> movies.value])

(***************************************************************************)
(* The torrent extractor.  A detail page is what the selectors see of it:  *)
(* specs is the first "div#movie-tech-specs" with the text nodes of each   *)
(* "span.tech-quality" and of each "div.tech-spec-info" in it, anchors the *)
(* href of each "a" of the first "div#movie-info p".                       *)
(***************************************************************************)
\* skip_useless_str without the frame-rate test
SkipUselessStrKeepsFps(value) ==
    /\ value # <<>>
    /\ value # <<"P","/","S">>
    /\ value # <<"S","u","b","t","i","t","l","e","s">>
    /\ value # <<"N","R">>

\* Torrent::skip_useless_str
SkipUselessStr(value) ==
    /\ value # <<>>
    /\ value # <<"P","/","S">>
    /\ value # <<"S","u","b","t","i","t","l","e","s">>
    /\ value # <<"N","R">>
    /\ ~Contains(value, <<"f","p","s">>)

\* the filtered tokens of one info block
BlockData(texts) ==
    SelectSeq([i \in 1..Len(texts) |-> Trim(texts[i])], SkipUselessStr)

\* Torrent::new
TorrentNew(quality, size, language, runtime, peers_seeds, link) ==
    [quality |-> QualityFromStr(quality), size |-> size, language |-> language,
     runtime |-> runtime, peers_seeds |-> peers_seeds, link |-> link]

\* The body of the anchor loop of Torrent::create, for anchor i.
TorrentAt(h, qualities, data, anchors, i) ==
    IF i > Len(data) \/ i > Len(qualities) THEN Panic("index out of bounds")
    ELSE IF Len(qualities[i]) < 1 \/ Len(data[i]) < 5 THEN Panic("index out of bounds")
    ELSE Ok(TorrentNew(qualities[i][1], data[i][1], data[i][3], data[i][4],
                       data[i][5], h \o UnwrapOrDefault(anchors[i])))

RECURSIVE TorrentsFrom(_, _, _, _, _)
\* The anchor loop of Torrent::create, from anchor i on.
TorrentsFrom(h, qualities, data, anchors, i) ==
    IF i > Len(anchors) THEN Ok(<<>>)
    ELSE LET torrent == TorrentAt(h, qualities, data, anchors, i)
             rest    == TorrentsFrom(h, qualities, data, anchors, i + 1)
         IN  IF torrent.kind # "Ok" THEN torrent
             ELSE IF rest.kind # "Ok" THEN rest
             ELSE Ok(<<torrent.value>> \o rest.value)

\* Torrent::create taking a page without a tech-specs section for a failure
TorrentCreateStrict(h, html) ==
    IF html.specs = <<>> THEN Err("MovieTorrentError")
    ELSE IF html.anchors = <<>> THEN Ok(<<>>)
    ELSE TorrentsFrom(h, html.specs[1].qualities,
                      [i \in 1..Len(html.specs[1].data) |-> BlockData(html.specs[1].data[i])],
                      html.anchors[1], 1)

\* Torrent::create
TorrentCreate(h, html) ==
    IF html.specs = <<>> \/ html.anchors = <<>> THEN Ok(<<>>)
    ELSE TorrentsFrom(h, html.specs[1].qualities,
                      [i \in 1..Len(html.specs[1].data) |-> BlockData(html.specs[1].data[i])],
                      html.anchors[1], 1)

(***************************************************************************)
(* The inputs: hosts, keywords, and the pages the site may answer with.    *)
(***************************************************************************)
\* impl Default for Yts
DefaultHost == <<"h","t","t","p","s",":","/","/","e","n",".","y","t","s","-","o","f","f","i","c","i","a","l",".","m","x">>

\* the hosts a client is constructed with (Yts::new takes any string)
Hosts == {DefaultHost, <<"h","t","t","p","s",":","/","/","h">>, <<"h","t","t","p","s",":","/","/","h","?","q">>, <<"h","t","t","p","s",":","/","/","h","#","f">>, <<"y","t","s">>}

Keywords ==
    {<<"t","h","e"," ","g","o","d","f","a","t","h","e","r">>, <<" ","u","p"," ">>, <<"a","&","b","=","c">>, <<"a","#","b">>, <<>>, <<"5","0","%","+">>, <<"a","/","b","?">>,
     <<"c", "a", "f", EAcute>>}

Hrefs == {<<"/","m","/","1">>}

\* all sequences over S of length at most n
SeqsUpTo(S, n) == UNION {[1..k -> S] : k \in 0..n}

RatingTokens ==
    {<<"8",".","5">>, <<"8",".","5"," ","/"," ","1","0">>, <<"1","0">>, <<"7">>, <<"-","5">>, <<"9","9">>, <<"N","/","A">>, <<"a", EAcute>>}

PageGenreLabels == {<<"C","r","i","m","e">>, <<"D","r","a","m","a">>, <<"F","o","r","e","i","g","n">>}

NameTokens == {<<"T","h","e"," ","G","o","d","f","a","t","h","e","r">>, <<"1","9","8","4">>}

YearTokens == {<<"1","9","7","2">>, <<"n","/","a">>}

\* the text nodes of a row: rating, genres, the button label, title, year,
\* with the whitespace between the elements; each part may be missing
RowTexts ==
    { <<<<"\n"," ">>>> \o r \o g \o <<ViewDetails, <<" ">>>> \o n \o y :
        r \in {<<>>} \cup {<<t>> : t \in RatingTokens},
        g \in SeqsUpTo(PageGenreLabels, MaxGenres),
        n \in {<<>>} \cup {<<t>> : t \in NameTokens},
        y \in {<<>>} \cup {<<t>> : t \in YearTokens} }

Row(href, src, texts) == [href |-> href, src |-> src, texts |-> texts]

GoodTexts ==
    <<<<"\n"," ">>, <<"8",".","5">>, <<"C","r","i","m","e">>, <<"D","r","a","m","a">>, ViewDetails, <<" ">>, <<"T","h","e"," ","G","o","d","f","a","t","h","e","r">>, <<"1","9","7","2">>>>

GoodRow == Row(Some(<<"/","m","/","1">>), Some(<<"/","i","/","1">>), GoodTexts)

OtherRow ==
    Row(Some(<<"/","m","/","2">>), Some(<<"/","i","/","2">>), <<<<"9",".","0"," ","/"," ","1","0">>, ViewDetails, <<"U","p">>, <<"2","0","0","9">>>>)

\* rows that differ in structure
SampleRows ==
    {GoodRow, OtherRow,
     Row(<<>>, Some(<<"/","i","/","1">>), GoodTexts),
     Row(Some(<<"/","m","/","1">>), <<>>, GoodTexts),
     Row(Some(<<"/","m","/","3">>), Some(<<"/","i","/","3">>), <<<<"7",".","1">>, <<"F","o","r","e","i","g","n">>, <<"R","a","n">>, <<"1","9","8","5">>>>),
     Row(Some(<<"/","m","/","4">>), Some(<<"/","i","/","4">>), <<<<"7",".","1">>, <<"D","r","a","m","a">>, <<"R","a","n">>, <<"n","/","a">>>>),
     Row(Some(<<"/","m","/","5">>), Some(<<"/","i","/","5">>), <<<<" ">>, ViewDetails>>),
     Row(Some(<<"/","m","/","6">>), Some(<<"/","i","/","6">>), <<<<"1","9","8","5">>>>)}

\* the text of the total-count element
CountTexts ==
    {Some(U32ToString(n)) : n \in 0..MaxTotal}
        \cup {<<>>, Some(<<"m","a","n","y">>), Some(<<>>), Some(<<"+","7">>), Some(<<"1",",","0","2","4">>),
              Some(<<"0","0","2","1">>), Some(<<"4","2","9","4","9","6","7","2","9","6">>), Some(<<" ","2","1">>), Some(<<"-","3">>)}

ResultsPage(count, rows) == [count |-> count, rows |-> rows]

ResultsPages ==
    {ResultsPage(Some(<<"2","1">>), Some(<<Row(Some(<<"/","m","/","1">>), Some(<<"/","i","/","1">>), t)>>)) : t \in RowTexts}
        \cup {ResultsPage(c, r) : c \in CountTexts, r \in {<<>>, Some(<<>>), Some(<<GoodRow>>)}}
        \cup {ResultsPage(Some(<<"4","1">>), Some(r)) : r \in SeqsUpTo(SampleRows, MaxRows)}
        \cup {ResultsPage(c, Some(<<r>>)) : c \in {<<>>, Some(<<"m","a","n","y">>)}, r \in SampleRows}

\* the text nodes of a quality label
Labels == {<<<<"1","0","8","0","p">>, <<".","x","2","6","5">>>>, <<>>}

GoodBlock ==
    <<<<" ","1",".","4"," ","G","B"," ">>, <<"1","9","2","0","*","8","0","0">>, <<"E","n","g","l","i","s","h"," ","2",".","0">>, <<"N","R">>, <<"S","u","b","t","i","t","l","e","s">>, <<"2","3",".","9","7","6"," ","f","p","s">>,
      <<>>, <<"2"," ","h","r"," ","5","5"," ","m","i","n">>, <<"P","/","S">>, <<"1","0","0"," ","/"," ","2","0","0">>>>

OtherBlock == <<<<"2"," ","G","B">>, <<"3","8","4","0","*","1","6","0","0">>, <<"F","r","e","n","c","h">>, <<"2","4"," ","f","p","s">>, <<"3"," ","h","r">>, <<"P","/","S">>, <<"7"," ","/"," ","9">>>>

ShortBlock == <<<<"1"," ","G","B">>, <<"1","2","8","0","*","5","3","4">>, <<"E","n","g","l","i","s","h"," ","2",".","0">>, <<"N","R">>, <<"2","3",".","9","7","6"," ","f","p","s">>, <<"P","/","S">>, <<"1"," ","/"," ","2">>>>

Blocks == {GoodBlock, ShortBlock}

\* the href of a download anchor, None for an anchor without one
Anchors == {Some(<<"/","t","/","1">>), <<>>}

\* the text of a quality label as the site or anything else may write it
QualityTexts ==
    {QualityToStr(q) : q \in Qualities}
        \cup {<<"u","n","k","n","o","w","n","-","q","u","a","l","i","t","y">>, <<"2","1","6","0","p",".","x","2","6","5">>, <<"1","0","8","0","p"," ","7","2","0","p">>, <<"7","2"," ","0">>, <<>>, <<"3","D",".","B","l","u","R","a","y">>}

DetailPage(specs, anchors) == [specs |-> specs, anchors |-> anchors]

DetailPages ==
    {DetailPage(s, a) :
        s \in {<<>>} \cup {Some([qualities |-> q, data |-> d]) :
                            q \in SeqsUpTo(Labels, MaxTorrents),
                            d \in SeqsUpTo(Blocks, MaxTorrents)},
        a \in {<<>>} \cup {Some(x) : x \in SeqsUpTo(Anchors, MaxTorrents)}}
        \cup {DetailPage(Some([qualities |-> <<<<q1>>, <<q2>>>>, data |-> <<GoodBlock, OtherBlock>>]),
                         Some(<<Some(<<"/","t","/","1">>), Some(<<"/","t","/","2">>)>>)) :
                q1 \in QualityTexts, q2 \in QualityTexts}

(***************************************************************************)
(* The state: one client handle and the operation its caller runs.         *)
(***************************************************************************)
VARIABLES
    host,       \* Yts::host
    builder,    \* the caller's Filters builder, if it holds one
    setters,    \* setter calls made on the builder
    pc,         \* "idle", "sent", "waiting", "received", "done"
    call,       \* the operation in progress: op, client, page
    args,       \* the keyword and filter of a search until its request is out
    request,    \* the URL of the request the client has handed to the transport
    sent,       \* HTTP requests issued by the operation in progress
    body,       \* the response body received
    result      \* what the operation returns to its caller

vars == <<host, builder, setters, pc, call, args, request, sent, body, result>>

Clients == {"async", "blocking"}

NoCall == [op |-> "none", client |-> "none", page |-> 0]

Init ==
    /\ host \in Hosts
    /\ builder = <<>>
    /\ setters = 0
    /\ pc = "idle"
    /\ call = NoCall
    /\ args = <<>>
    /\ request = <<>>
    /\ sent = 0
    /\ body = <<>>
    /\ result = <<>>

(***************************************************************************)
(* The filter builder.                                                     *)
(***************************************************************************)
\* Filters::default
FiltersNew ==
    /\ pc = "idle"
    /\ builder = <<>>
    /\ builder' = Some(FiltersDefault)
    /\ setters' = 0
    /\ UNCHANGED <<host, pc, call, args, request, sent, body, result>>

\* a setter of the builder: the field is overwritten, the others kept
Set(filter) ==
    /\ pc = "idle"
    /\ builder # <<>>
    /\ setters < MaxSetters
    /\ builder' = Some(filter)
    /\ setters' = setters + 1
    /\ UNCHANGED <<host, pc, call, args, request, sent, body, result>>

\* Filters::quality
FiltersQuality == \E q \in Qualities : Set([builder[1] EXCEPT !.quality = q])

\* Filters::genre
FiltersGenre == \E g \in Genres : Set([builder[1] EXCEPT !.genre = g])

\* Filters::rating
FiltersRating == \E r \in Ratings : Set([builder[1] EXCEPT !.rating = r])

\* Filters::year
FiltersYear == \E y \in Years : Set([builder[1] EXCEPT !.year = y])

\* Filters::order_by
FiltersOrderBy == \E o \in OrderBys : Set([builder[1] EXCEPT !.order_by = o])

\* Filters::page
FiltersPage == \E p \in 1..MaxPage : Set([builder[1] EXCEPT !.page = p])

(***************************************************************************)
(* The transport clients.                                                  *)
(***************************************************************************)
\* What search_with_filter does with the result of create_url.  The async
\* client applies `?` to it; the blocking client hands it to get() as it is,
\* so that its only error exit before the response is that of send().
UrlOrReturn(client, url) ==
    IF url.kind = "Ok" THEN url
    ELSE IF client = "async" THEN url
    ELSE Err(<<"ReqwestError">>)

\* search_with_filter up to send(): the request goes out, or the call returns
SearchCall(op, client, movie_name, filter) ==
    LET url == UrlOrReturn(client, CreateUrl(host, movie_name, filter))
    IN  /\ call' = [op |-> op, client |-> client, page |-> filter.page]
        /\ args' = Some([movie_name |-> movie_name, filter |-> filter])
        /\ body' = <<>>
        /\ IF url.kind = "Ok"
           THEN /\ pc' = "sent"
                /\ request' = Some(url.value)
                /\ sent' = sent + 1
                /\ result' = <<>>
           ELSE /\ pc' = "done"
                /\ request' = <<>>
                /\ sent' = sent
                /\ result' = Some(url)

\* Yts::search_with_filter and blocking::Yts::search_with_filter
SearchWithFilter ==
    \E client \in Clients, movie_name \in Keywords :
        /\ pc = "idle"
        /\ builder # <<>>
        /\ SearchCall("search_with_filter", client, movie_name, builder[1])
        /\ builder' = <<>>
        /\ setters' = 0
        /\ UNCHANGED host

\* Yts::search and blocking::Yts::search
Search ==
    \E client \in Clients, movie_name \in Keywords :
        /\ pc = "idle"
        /\ builder = <<>>
        /\ SearchCall("search", client, movie_name, FiltersDefault)
        /\ UNCHANGED <<host, builder, setters>>

\* Yts::torrents and blocking::Yts::torrents, up to send(); the movie is one a
\* Response of this client holds, its link the host followed by an href
Torrents ==
    \E client \in Clients, href \in Hrefs \cup {<<>>} :
        LET link == host \o href
        IN  /\ pc = "idle"
            /\ builder = <<>>
            /\ call' = [op |-> "torrents", client |-> client, page |-> 0]
            /\ args' = <<>>
            /\ body' = <<>>
            /\ IF UrlParse(link) # <<>>
               THEN /\ pc' = "sent"
                    /\ request' = Some(link)
                    /\ sent' = sent + 1
                    /\ result' = <<>>
               ELSE /\ pc' = "done"
                    /\ request' = <<>>
                    /\ sent' = sent
                    /\ result' = Some(Err(<<"ReqwestError">>))
            /\ UNCHANGED <<host, builder, setters>>

\* The request leaves the client.
Transmit ==
    /\ pc = "sent"
    /\ pc' = "waiting"
    /\ request' = <<>>
    /\ args' = <<>>
    /\ UNCHANGED <<host, builder, setters, call, sent, body, result>>

\* send() or text() fails and the client issues the request once more
TransportFailureRetries ==
    /\ pc \in {"sent", "waiting"}
    /\ pc' = "sent"
    /\ sent' = sent + 1
    /\ request' = request
    /\ args' = args
    /\ result' = <<>>
    /\ UNCHANGED <<host, builder, setters, call, body>>

\* send() or text() fails: connection, timeout, undecodable body
TransportFailure ==
    /\ pc \in {"sent", "waiting"}
    /\ pc' = "done"
    /\ request' = <<>>
    /\ args' = <<>>
    /\ result' = Some(Err(<<"ReqwestError">>))
    /\ UNCHANGED <<host, builder, setters, call, sent, body>>

\* response.text() returns the body
ReceiveBody ==
    \E html \in (IF call.op = "torrents" THEN DetailPages ELSE ResultsPages) :
        /\ pc = "waiting"
        /\ pc' = "received"
        /\ body' = Some(html)
        /\ UNCHANGED <<host, builder, setters, call, args, request, sent, result>>

\* Response::create or Torrent::create on the body
Parse ==
    /\ pc = "received"
    /\ pc' = "done"
    /\ \E overflow_checks \in BOOLEAN :
          result' = Some(IF call.op = "torrents"
                         THEN TorrentCreate(host, body[1])
                         ELSE ResponseCreate(host, body[1], call.page, overflow_checks))
    /\ UNCHANGED <<host, builder, setters, call, args, request, sent, body>>

\* The operation returns (or unwinds) to its caller.
Return ==
    /\ pc = "done"
    /\ pc' = "idle"
    /\ call' = NoCall
    /\ args' = <<>>
    /\ sent' = 0
    /\ body' = <<>>
    /\ result' = <<>>
    /\ UNCHANGED <<host, builder, setters, request>>

Next ==
    \/ FiltersNew
    \/ FiltersQuality
    \/ FiltersGenre
    \/ FiltersRating
    \/ FiltersYear
    \/ FiltersOrderBy
    \/ FiltersPage
    \/ SearchWithFilter
    \/ Search
    \/ Torrents
    \/ Transmit
    \/ TransportFailure
    \/ ReceiveBody
    \/ Parse
    \/ Return

Spec == Init /\ [][Next]_vars

(***************************************************************************)
(* Properties.                                                             *)
(***************************************************************************)
IsSearch == call.op \in {"search", "search_with_filter"}

\* a search whose results page has been parsed
SearchParsed == pc = "done" /\ IsSearch /\ body # <<>>

\* a torrent lookup whose detail page has been parsed
TorrentsParsed == pc = "done" /\ call.op = "torrents" /\ body # <<>>

\* the rows of the parsed results page
BodyRows == UnwrapOrDefault(body[1].rows)

\* C1: when the page shows the total n, the Response's Page keeps total = n and
\* has of = 1 for n <= 20 and of = ceil(n / 20) for n > 20.
C1_PageOf ==
    (SearchParsed /\ result[1].kind = "Ok") =>
        \A n \in 0..MaxTotal :
            body[1].count = Some(U32ToString(n)) =>
                LET page == result[1].value.page
                IN  /\ page.total = n
                    /\ page.current = call.page
                    /\ n <= 20 => page.of = 1
                    /\ n > 20 => 20 * page.of >= n /\ 20 * (page.of - 1) < n

\* C1 witness: a page showing 41 results parsed into a Page of 3 pages.
C1_Witness ==
    /\ SearchParsed
    /\ body[1].count = Some(<<"4","1">>)
    /\ result[1].kind = "Ok"
    /\ result[1].value.page.of = 3
    /\ result[1].value.page.total = 41

\* C2: a page whose only row is the well-formed row (rating "8.5", genres Crime
\* and Drama, title "The Godfather", year "1972") yields exactly one Movie with
\* rating 8.5, genres [Crime, Drama], that name and that year.
C2_WellFormedRow ==
    (SearchParsed /\ Len(BodyRows) = 1 /\ BodyRows[1].texts = GoodTexts) =>
        /\ result[1].kind = "Ok"
        /\ Len(result[1].value.movies) = 1
        /\ result[1].value.movies[1].rating = 85
        /\ result[1].value.movies[1].genre = <<"Crime", "Drama">>
        /\ result[1].value.movies[1].name = <<"T","h","e"," ","G","o","d","f","a","t","h","e","r">>
        /\ result[1].value.movies[1].year = 1972

\* C3: a first row without a detail-link anchor fails the parse with
\* MovieLinkError, one without a poster image with MovieImageError, and no
\* returned Movie has the bare host as its link or image.
C3_MissingLinkOrImage ==
    (SearchParsed /\ BodyRows # <<>>) =>
        /\ BodyRows[1].href = <<>> => result[1] = Err("MovieLinkError")
        /\ (BodyRows[1].href # <<>> /\ BodyRows[1].src = <<>>)
              => result[1] = Err("MovieImageError")
        /\ result[1].kind = "Ok" =>
              \A i \in 1..Len(result[1].value.movies) :
                  /\ result[1].value.movies[i].link # host
                  /\ result[1].value.movies[i].image # host

\* the first row has a rating and a year that parse, a title, and a genre token
\* that is no recognized label
FirstRowHasUnknownGenre ==
    /\ BodyRows # <<>>
    /\ LET info == RowInfo(BodyRows[1])
       IN  /\ Len(info) >= 3
           /\ RowRating(info[1]).kind = "Ok"
           /\ ParseU32(info[Len(info)]) # <<>>
           /\ \E i \in 2..(Len(info) - 2) :
                \A e \in GenreTable : e[3] # Some(info[i])

\* C4: an unrecognized genre token makes Response::create return an Err value:
\* the label is not dropped and the program does not panic.
C4_UnknownGenreIsErr ==
    (SearchParsed /\ FirstRowHasUnknownGenre) => result[1].kind = "Err"

\* the detail page has as many labels and blocks as anchors, every label has a
\* text and every block five tokens or more that are no noise
IsNoise(t) ==
    t = <<>> \/ t = <<"P","/","S">> \/ t = <<"S","u","b","t","i","t","l","e","s">> \/ t = <<"N","R">> \/ Contains(t, <<"f","p","s">>)

BlockTokens(texts) ==
    SelectSeq([i \in 1..Len(texts) |-> Trim(texts[i])], LAMBDA t : ~IsNoise(t))

WellFormedDetail ==
    /\ body[1].specs # <<>>
    /\ body[1].anchors # <<>>
    /\ Len(body[1].specs[1].qualities) = Len(body[1].anchors[1])
    /\ Len(body[1].specs[1].data) = Len(body[1].anchors[1])
    /\ \A i \in 1..Len(body[1].anchors[1]) :
          /\ body[1].specs[1].qualities[i] # <<>>
          /\ Len(BlockTokens(body[1].specs[1].data[i])) >= 5

\* the text of the i-th quality label of the parsed detail page
LabelText(i) == body[1].specs[1].qualities[i][1]

ContainsResolution(t) ==
    Contains(t, <<"7","2","0">>) \/ Contains(t, <<"1","0","8","0">>) \/ Contains(t, <<"2","1","6","0">>)

\* C5 as stated: every Quality value, All included, comes back from its string
\* form.
C5_RoundTripAll ==
    (TorrentsParsed /\ WellFormedDetail) =>
        /\ result[1].kind = "Ok"
        /\ \A i \in 1..Len(body[1].anchors[1]) : \A q \in Qualities :
              LabelText(i) = QualityToStr(q) => result[1].value[i].quality = q

\* C5 amended: P720, P1080, P2160 and ThreeD come back from their string
\* forms; "all", "3D" and every label containing none of "720", "1080", "2160"
\* decode to ThreeD, never to a failure.
C5_RoundTrip ==
    (TorrentsParsed /\ WellFormedDetail) =>
        /\ result[1].kind = "Ok"
        /\ \A i \in 1..Len(body[1].anchors[1]) :
              /\ \A q \in Qualities \ {"All"} :
                    LabelText(i) = QualityToStr(q) => result[1].value[i].quality = q
              /\ ~ContainsResolution(LabelText(i)) => result[1].value[i].quality = "ThreeD"
              /\ result[1].value[i].quality \in Qualities \ {"All"}

\* C5 witness: a page labelled "2160p" and "all" decoded to P2160 and ThreeD.
C5_Witness ==
    /\ TorrentsParsed
    /\ WellFormedDetail
    /\ Len(body[1].anchors[1]) = 2
    /\ LabelText(1) = QualityToStr("P2160")
    /\ LabelText(2) = QualityToStr("All")
    /\ result[1].kind = "Ok"
    /\ result[1].value[1].quality = "P2160"
    /\ result[1].value[2].quality = "ThreeD"

StartsWith(s, prefix) ==
    Len(s) >= Len(prefix) /\ SubSeq(s, 1, Len(prefix)) = prefix

EndsWith(s, suffix) ==
    Len(s) >= Len(suffix) /\ SubSeq(s, Len(s) - Len(suffix) + 1, Len(s)) = suffix

RECURSIVE SplitOn(_, _)
\* the pieces of s between the occurrences of character c
SplitOn(s, c) ==
    IF IndexOf(s, c) > Len(s) THEN <<s>>
    ELSE <<SubSeq(s, 1, IndexOf(s, c) - 1)>>
            \o SplitOn(SubSeq(s, IndexOf(s, c) + 1, Len(s)), c)

\* the percent escapes of application/x-www-form-urlencoded
PercentEscapes ==
    { <<<<"%","0","9">>, <<"\t">> >>, <<<<"%","2","3">>, <<"#">>>>, <<<<"%","2","5">>, <<"%">>>>, <<<<"%","2","6">>, <<"&">>>>,
      <<<<"%","2","B">>, <<"+">>>>, <<<<"%","2","F">>, <<"/">>>>, <<<<"%","3","D">>, <<"=">>>>, <<<<"%","3","F">>, <<"?">>>>,
      <<<<"%","C","3","%","A","9">>, <<EAcute>> >> }

RECURSIVE FormDecode(_)
\* what a server reads from a form-urlencoded value
FormDecode(s) ==
    IF s = <<>> THEN <<>>
    ELSE IF Head(s) = "+" THEN <<" ">> \o FormDecode(Tail(s))
    ELSE IF \E e \in PercentEscapes : StartsWith(s, e[1])
         THEN LET e == CHOOSE x \in PercentEscapes : StartsWith(s, x[1])
              IN  e[2] \o FormDecode(SubSeq(s, Len(e[1]) + 1, Len(s)))
    ELSE <<Head(s)>> \o FormDecode(Tail(s))

\* the characters a form-urlencoded value is made of
FormChars == AsciiAlnum \cup {"*", "-", ".", "_", "+", "%"}

\* the seven parameters of a search, in order, for keyword and filter a
SearchParameters(a) ==
    << <<<<"k","e","y","w","o","r","d">>,  Trim(a.movie_name)>>,
       <<<<"q","u","a","l","i","t","y">>,  QualityToStr(a.filter.quality)>>,
       <<<<"g","e","n","r","e">>,    GenreToStr(a.filter.genre)>>,
       <<<<"r","a","t","i","n","g">>,   RatingToStr(a.filter.rating)>>,
       <<<<"y","e","a","r">>,     YearToStr(a.filter.year)>>,
       <<<<"o","r","d","e","r","_","b","y">>, OrderByToStr(a.filter.order_by)>>,
       <<<<"p","a","g","e">>,     U32ToString(a.filter.page)>> >>

\* url is h/browse-movies followed by exactly the seven parameters of a
IsSearchUrl(url, h, a) ==
    LET prefix == h \o <<"/","b","r","o","w","s","e","-","m","o","v","i","e","s","?">>
        pairs  == SplitOn(SubSeq(url, Len(prefix) + 1, Len(url)), "&")
    IN  /\ StartsWith(url, prefix)
        /\ Len(pairs) = 7
        /\ \A i \in 1..7 :
              LET pair == SplitOn(pairs[i], "=")
              IN  /\ Len(pair) = 2
                  /\ pair[1] = SearchParameters(a)[i][1]
                  /\ \A k \in 1..Len(pair[2]) : pair[2][k] \in FormChars
                  /\ FormDecode(pair[2]) = SearchParameters(a)[i][2]

\* C6 as stated: for every host that parses, the URL of a search is the host,
\* /browse-movies and the seven parameters in order, the keyword form-encoded.
C6_SearchUrlAnyHost ==
    (pc = "sent" /\ IsSearch) => IsSearchUrl(request[1], host, args[1])

\* the host has no query and no fragment of its own
PlainHost == ~Contains(host, <<"?">>) /\ ~Contains(host, <<"#">>)

\* C6 amended: for every host that parses and has no '?' and no '#' in it, the
\* URL of a search is the host, /browse-movies and the seven parameters in
\* order, the keyword form-encoded.
C6_SearchUrl ==
    (pc = "sent" /\ IsSearch /\ PlainHost) => IsSearchUrl(request[1], host, args[1])

\* C6 witness: a keyword with '&' and '=' sent to a plain host with a filter
\* that is not the default one.
C6_Witness ==
    /\ pc = "sent"
    /\ IsSearch
    /\ PlainHost
    /\ args[1].movie_name = <<"a","&","b","=","c">>
    /\ args[1].filter # FiltersDefault
    /\ Contains(request[1], <<"?","k","e","y","w","o","r","d","=","a","%","2","6","b","%","3","D","c","&","q","u","a","l","i","t","y","=">>)

\* C7: with a host that does not parse, search and search_with_filter of both
\* clients return the URL-parse error carrying the host, and no request is sent.
C7_UnparsableHost ==
    (pc = "done" /\ IsSearch /\ UrlParse(host \o <<"/","b","r","o","w","s","e","-","m","o","v","i","e","s">>) = <<>>) =>
        /\ result[1] = Err(<<"ParseError", host>>)
        /\ sent = 0

DefaultParameters ==
    <<"&","q","u","a","l","i","t","y","=","a","l","l","&","g","e","n","r","e","=","a","l","l","&","r","a","t","i","n","g","=","0","&","y","e","a","r","=","0","&","o","r","d","e","r","_","b","y","=","l","a","t","e","s","t","&","p","a","g","e","=","1">>

\* C8: a builder no setter was applied to serializes to quality=all, genre=all,
\* rating=0, year=0, order_by=latest, page=1, and these are the parameters
\* search(keyword) sends.
C8_DefaultFilter ==
    /\ (builder # <<>> /\ setters = 0) =>
          /\ QualityToStr(builder[1].quality) = <<"a","l","l">>
          /\ GenreToStr(builder[1].genre) = <<"a","l","l">>
          /\ RatingToStr(builder[1].rating) = <<"0">>
          /\ YearToStr(builder[1].year) = <<"0">>
          /\ OrderByToStr(builder[1].order_by) = <<"l","a","t","e","s","t">>
          /\ U32ToString(builder[1].page) = <<"1">>
    /\ (pc = "sent" /\ call.op = "search") =>
          /\ EndsWith(request[1], DefaultParameters)
          /\ call.page = 1

\* C8 witness: search(keyword) has sent its request.
C8_Witness ==
    /\ pc = "sent"
    /\ call.op = "search"
    /\ EndsWith(request[1], DefaultParameters)

\* C9: N labels, N info blocks and N anchors yield N torrents in document
\* order; torrent i has the quality of label i, size, language, runtime and
\* peers/seeds from tokens 0, 2, 3, 4 of block i without its noise tokens, and
\* the host followed by href i as its link.
C9_TorrentFields ==
    (TorrentsParsed /\ WellFormedDetail) =>
        /\ result[1].kind = "Ok"
        /\ Len(result[1].value) = Len(body[1].anchors[1])
        /\ \A i \in 1..Len(body[1].anchors[1]) :
              LET torrent == result[1].value[i]
                  tokens  == BlockTokens(body[1].specs[1].data[i])
              IN  /\ torrent.quality = QualityFromStr(LabelText(i))
                  /\ torrent.size = tokens[1]
                  /\ torrent.language = tokens[3]
                  /\ torrent.runtime = tokens[4]
                  /\ torrent.peers_seeds = tokens[5]
                  /\ torrent.link = host \o UnwrapOrDefault(body[1].anchors[1][i])

\* C9 witness: two blocks and two anchors parsed into two torrents, the first
\* from the first block.
C9_Witness ==
    /\ TorrentsParsed
    /\ WellFormedDetail
    /\ body[1].specs[1].data = <<GoodBlock, OtherBlock>>
    /\ result[1].kind = "Ok"
    /\ Len(result[1].value) = 2
    /\ result[1].value[1].size = <<"1",".","4"," ","G","B">>
    /\ result[1].value[1].runtime = <<"2"," ","h","r"," ","5","5"," ","m","i","n">>
    /\ result[1].value[2].peers_seeds = <<"7"," ","/"," ","9">>

\* the detail page has no tech-specs section, no movie-info paragraph, or a
\* paragraph without anchors
NothingToDownload ==
    body[1].specs = <<>> \/ body[1].anchors = <<>> \/ body[1].anchors[1] = <<>>

\* C10: a detail page without a tech-specs section or without movie-info
\* anchors yields Ok with an empty torrent list.
C10_EmptyTorrents ==
    (TorrentsParsed /\ NothingToDownload) => result[1] = Ok(<<>>)

\* C10 witness: a page with anchors and no tech-specs section gave Ok([]).
C10_Witness ==
    /\ TorrentsParsed
    /\ body[1].specs = <<>>
    /\ body[1].anchors # <<>>
    /\ body[1].anchors[1] # <<>>
    /\ result[1] = Ok(<<>>)

\* the parsed results page has no total-count element, or one whose text is
\* no unsigned integer of 32 bits: one or more decimal digits and nothing else
\* (a leading '+' is read as a sign)
NoCountOrMalformed ==
    \/ body[1].count = <<>>
    \/ LET text   == body[1].count[1]
           digits == IF text # <<>> /\ Head(text) = "+" THEN Tail(text) ELSE text
       IN  \/ digits = <<>>
           \/ \E i \in 1..Len(digits) : \A d \in 1..10 : DigitChars[d] # digits[i]
           \/ OverflowsU32(digits)

\* C11: when the total-count element is absent or its text is no unsigned
\* integer, the total is taken as 0 and the rows are parsed all the same: a
\* Response has a Page with total 0 and of 1 and one Movie for every row, and the
\* parse ends without a Response only when a row of the page fails.
C11_MalformedCount ==
    (SearchParsed /\ NoCountOrMalformed) =>
        /\ result[1].kind = "Ok" =>
              /\ result[1].value.page.total = 0
              /\ result[1].value.page.of = 1
              /\ result[1].value.page.current = call.page
              /\ Len(result[1].value.movies) = Len(BodyRows)
        /\ result[1].kind # "Ok" =>
              \E i \in 1..Len(BodyRows), oc \in BOOLEAN :
                  result[1] = MovieCreate(host, BodyRows[i], oc)
        /\ (\A i \in 1..Len(BodyRows) : BodyRows[i] \in {GoodRow, OtherRow})
              => result[1].kind = "Ok"

\* C11 witness: a page whose count reads "many" and whose one row is well
\* formed parsed into a Response with that Movie and a Page of total 0, of 1.
C11_Witness ==
    /\ SearchParsed
    /\ body[1].count = Some(<<"m","a","n","y">>)
    /\ BodyRows = <<GoodRow>>
    /\ result[1].kind = "Ok"
    /\ result[1].value.page.total = 0
    /\ result[1].value.page.of = 1
    /\ Len(result[1].value.movies) = 1

\* C12: an operation issues at most one GET, and only when it starts; the body
\* is parsed only once it has been received, for that one request; and once the
\* operation has ended, with a failure of the request or of the parse as with a
\* value, its only step is the return to the caller: no request follows.
C12_SingleRequest ==
    [][ /\ sent' <= 1
        /\ sent' > sent => (pc = "idle" /\ sent = 0 /\ call'.op # "none")
        /\ (pc = "received" /\ pc' = "done") =>
              (body # <<>> /\ sent = 1 /\ result = <<>> /\ result' # <<>>)
        /\ (result = <<>> /\ result' # <<>>) => (pc' = "done" /\ sent' = sent)
        /\ pc = "done" =>
              (result # <<>> /\ pc' = "idle" /\ sent' = 0 /\ request' = <<>>)
      ]_vars

\* C12 witness: the parse of the body of the operation's one request failed,
\* and the failure is what the operation returns.
C12_Witness ==
    /\ pc = "done"
    /\ sent = 1
    /\ body # <<>>
    /\ result[1].kind = "Err"

\* C13: every Movie of a returned Response has a rating from 0.0 to 10.0, the
\* bounds included, whatever the rating token of its row reads.
C13_RatingInRange ==
    (SearchParsed /\ result[1].kind = "Ok") =>
        \A i \in 1..Len(result[1].value.movies) :
            /\ result[1].value.movies[i].rating >= 0
            /\ result[1].value.movies[i].rating <= 100

\* the tokens of the first row of the parsed page
FirstRowInfo == RowInfo(BodyRows[1])

\* the first two characters of a token are a decimal number
TwoCharactersNumeric(token) ==
    Len(token) >= 2 /\ ParseF32(SubSeq(token, 1, 2)) # <<>>

\* C14: when the first row has no tokens, or its first token has fewer than two
\* characters, or the first two characters of that token are not numeric, the
\* parse returns MovieRatingError: no panic and no other error.
C14_RatingError ==
    (SearchParsed /\ BodyRows # <<>>) =>
        ((FirstRowInfo = <<>> \/ ~TwoCharactersNumeric(FirstRowInfo[1]))
            => result[1] = Err("MovieRatingError"))

\* C15: a first row with exactly one token, usable as the rating and as the
\* year, makes the parse return MovieNameError: no panic and no arithmetic
\* underflow on the way to the second-to-last index.
C15_OneTokenRow ==
    (SearchParsed /\ BodyRows # <<>>) =>
        ((/\ Len(FirstRowInfo) = 1
          /\ TwoCharactersNumeric(FirstRowInfo[1])
          /\ ParseU32(FirstRowInfo[1]) # <<>>)
            => result[1] = Err("MovieNameError"))

\* the genre a page label stands for
GenreOfLabel(label) == (CHOOSE e \in GenreTable : e[3] = Some(label))[1]

IsGenreLabel(label) == \E e \in GenreTable : e[3] = Some(label)

\* the page has one row, of two tokens or more, whose rating and year parse and
\* whose tokens between the first and the last two are genre labels
OneRowWithRatingAndYear ==
    /\ Len(BodyRows) = 1
    /\ Len(FirstRowInfo) >= 2
    /\ ByteLen(FirstRowInfo[1]) = Len(FirstRowInfo[1])
    /\ TwoCharactersNumeric(FirstRowInfo[1])
    /\ ParseU32(FirstRowInfo[Len(FirstRowInfo)]) # <<>>
    /\ \A i \in 2..(Len(FirstRowInfo) - 2) : IsGenreLabel(FirstRowInfo[i])

\* C16: a row of n >= 2 tokens whose rating and year parse yields a Movie whose
\* genre list is the tokens strictly between the first and the last two, in
\* order: max(0, n - 3) entries, none for n = 3 and none for n = 2.
C16_GenresBetween ==
    (SearchParsed /\ BodyRows # <<>>) =>
        (OneRowWithRatingAndYear =>
            /\ result[1].kind = "Ok"
            /\ Len(result[1].value.movies) = 1
            /\ LET n     == Len(FirstRowInfo)
                   genre == result[1].value.movies[1].genre
               IN  /\ Len(genre) = IF n > 3 THEN n - 3 ELSE 0
                   /\ \A i \in 1..Len(genre) : genre[i] = GenreOfLabel(FirstRowInfo[i + 1]))

\* an anchor of the parsed detail page has no info block or no quality label at
\* its position, or a label without a text, or a block of fewer than five
\* tokens that are no noise
MissingPosition ==
    /\ body[1].specs # <<>>
    /\ body[1].anchors # <<>>
    /\ \E i \in 1..Len(body[1].anchors[1]) :
          \/ i > Len(body[1].specs[1].data)
          \/ i > Len(body[1].specs[1].qualities)
          \/ body[1].specs[1].qualities[i] = <<>>
          \/ Len(BlockTokens(body[1].specs[1].data[i])) < 5

\* C17: a detail page on which a position the anchors index is missing ends
\* Torrent::create in a failure that reaches the caller as an error result; no
\* torrent list is returned.
C17_MissingPositionIsErr ==
    (TorrentsParsed /\ MissingPosition) => result[1].kind = "Err"

\* the rows of the parsed page whose extraction yields no Movie
FailingRows ==
    {i \in 1..Len(BodyRows) :
        \E oc \in BOOLEAN : MovieCreate(host, BodyRows[i], oc).kind # "Ok"}

=============================================================================
